---------------------------- MODULE Spec2Model ----------------------------
(***************************************************************************)
(* State-machine model of the rental-investment simulator front end.       *)
(*                                                                         *)
(*   Spec      the simulator page (app/simulator/page.tsx): its React      *)
(*             state, the simulate request in flight and the two           *)
(*             sensitivity sweep requests joined by Promise.all.           *)
(*   FormSpec  the two parameter forms (SimulatorForm,                     *)
(*             ExpertSimulatorForm): form state, the location-defaults     *)
(*             effect, and the payload handed to the onSubmit prop.        *)
(*   ResultSpec the page's submit handlers answered with simulate bodies   *)
(*             of every shape (optional sections, undocumented bodies).    *)
(*   ViewSpec  the derived-view components (ScoreGauge,                    *)
(*             CumulativeCashFlowChart) rendered with props of their own.  *)
(*                                                                         *)
(* Conventions.                                                            *)
(*   - A JavaScript value that may be null/undefined is an option:         *)
(*     <<>> is null, <<v>> is v.                                           *)
(*   - A decoded JSON body is a record whose DOMAIN holds exactly the      *)
(*     keys the body carries; a missing key reads as undefined (falsy).    *)
(*   - Rates (percent inputs and stored fractions) are fixed-point         *)
(*     numbers in units of 1/10000: 0.08 is 800 and the percent 8 is       *)
(*     80000.  Money and surfaces are whole numbers.  Floating-point       *)
(*     rounding is not modelled.                                           *)
(***************************************************************************)
EXTENDS Integers, Sequences, FiniteSets, TLC

VARIABLES
    \* ---- SimulatorPage state (page.tsx:55-64) ----
    mode, loading, sensitivityLoading, result, error, lastExpertParams,
    sensitivityData,
    \* ---- requests issued by the page ----
    simReq,      \* the simulate request of the running submit handler
    sweep,       \* the two runSensitivityAnalysis requests of the running join
    orphans,     \* sweep requests still pending after their Promise.all rejected
    \* ---- SimulatorForm / ExpertSimulatorForm state ----
    sform,       \* SimulatorForm's form state
    form,        \* ExpertSimulatorForm's form state
    pendingDefaults, \* locations whose getLocationDefaults fetch is in flight
    sent,        \* argument of the last onSubmit call of the mounted form
    \* ---- history of the mounted form (observation only) ----
    entered,     \* per percent field: the last percent the user typed
    overwritten, \* per percent field: a defaults merge wrote it since
    formOp,      \* the last form operation
    nEdits,      \* number of user edits so far (bounded)
    answered,    \* the answer handled for the location now selected, if any
    \* ---- derived-view components ----
    gauge,       \* ScoreGauge as last rendered: its props and its score info
    chart,       \* CumulativeCashFlowChart as last rendered
    dashboard    \* ResultsDashboard as last rendered

pageVars == <<mode, loading, sensitivityLoading, result, error,
              lastExpertParams, sensitivityData, simReq, sweep, orphans>>
formVars == <<sform, form, pendingDefaults, sent, entered, overwritten,
              formOp, nEdits, answered>>
viewVars == <<gauge, chart, dashboard>>
vars == <<pageVars, formVars, viewVars>>

None == <<>>
Some(x) == <<x>>

\* ------------------------------------------------------------------ bounds
\* Distinct parameter sets the forms can hand to the page.
MaxParams == 2
\* Sweep requests that may be left pending behind a rejected join.
MaxOrphans == 2
\* User edits of a mounted form.
MaxEdits == 2

ParamIds == 1..MaxParams
Modes == {"simple", "expert"}

\* ------------------------------------------------------- JavaScript values
\* `b.k` used as a condition, for a boolean-valued key.
TruthyBool(b, k) == k \in DOMAIN b /\ b[k] = TRUE
\* `b.k` used as a condition, for a string-valued key ('' is falsy).
TruthyStr(b, k) == k \in DOMAIN b /\ b[k] # ""
\* `b.k` used as a condition, for an object- or array-valued key ([] is truthy).
TruthyObj(b, k) == k \in DOMAIN b

\* --------------------------------------------------------------- responses
\* What the engine (not in this repository) may answer to a simulate call.
SimBodies ==
    { [success |-> TRUE, metrics |-> [irr |-> 600]],
      [success |-> TRUE],
      [success |-> FALSE, error |-> "quota exceeded"],
      [success |-> FALSE, error |-> ""],
      [success |-> FALSE] }

SimResponses ==
    { [kind |-> "network"] }
    \cup { [kind |-> "malformed", status |-> s] : s \in {200, 502} }
    \cup { [kind |-> "json", status |-> 200, body |-> b] : b \in SimBodies }
    \cup { [kind |-> "json", status |-> 422, body |-> [detail |-> "invalid"]],
           [kind |-> "json", status |-> 500,
            body |-> [success |-> FALSE, error |-> "quota exceeded"]] }

\* What the engine may answer to a sensitivity call.
SensBodies ==
    { [success |-> TRUE, points |-> <<1>>],
      [success |-> TRUE, points |-> <<>>],
      [success |-> FALSE, error |-> "sweep failed"] }

SensResponses ==
    { [kind |-> "network"], [kind |-> "malformed", status |-> 200] }
    \cup { [kind |-> "json", status |-> 200, body |-> b] : b \in SensBodies }

\* fetch(...) then res.json(): the promise rejects when the network fails or
\* the body is not JSON, and resolves with the decoded body otherwise,
\* whatever the HTTP status.
Rejects(resp) == resp.kind \in {"network", "malformed"}

simulateSimple(resp) == IF Rejects(resp) THEN None ELSE Some(resp.body)
simulateExpert(resp) == IF Rejects(resp) THEN None ELSE Some(resp.body)
runSensitivityAnalysis(resp) == IF Rejects(resp) THEN None ELSE Some(resp.body)

ConnectionError == "Server connection error"
UnknownError == "Unknown error"

\* Variant of ErrorOrFallback that drops the server's message.
ErrorOrFallbackIgnoresMessage(res) == UnknownError

\* res.error || 'Unknown error'
ErrorOrFallback(res) == IF TruthyStr(res, "error") THEN res.error ELSE UnknownError


\* ------------------------------------------------------------ page: views
NoSensitivityData == [loanRate |-> None, growth |-> None]
IdleSlot == [st |-> "idle"]
NoSweep == [loan |-> IdleSlot, growth |-> IdleSlot]
NoRequest == [st |-> "none"]

\* Variant of ResultsShown that wants every optional section.
ResultsShownWithAllSections ==
    /\ result # None
    /\ TruthyBool(result[1].res, "success")
    /\ TruthyObj(result[1].res, "metrics")
    /\ {"fiscal", "yearly_cashflows", "alerts"} \subseteq DOMAIN result[1].res

\* result?.success && result.metrics : the results dashboard is rendered.
ResultsShown ==
    /\ result # None
    /\ TruthyBool(result[1].res, "success")
    /\ TruthyObj(result[1].res, "metrics")

\* The placeholder of the else branch.
PlaceholderShown == ~ResultsShown

\* {error && ...}
ErrorShown == error # None /\ error[1] # ""

\* mode === 'expert' inside the results branch.
ExpertPanelShown == ResultsShown /\ mode = "expert"

\* sensitivityData.X?.success && sensitivityData.X.points
SlotRenders(slot) ==
    /\ slot # None
    /\ TruthyBool(slot[1].res, "success")
    /\ TruthyObj(slot[1].res, "points")

LoanChartShown == ExpertPanelShown /\ SlotRenders(sensitivityData.loanRate)
GrowthChartShown == ExpertPanelShown /\ SlotRenders(sensitivityData.growth)

\* Variant of SensitivityButtonEnabled that only looks at sensitivityLoading.
SensitivityButtonEnabledUnlessLoading ==
    ExpertPanelShown /\ ~sensitivityLoading

\* The sensitivity button is rendered and not disabled.
SensitivityButtonEnabled ==
    ExpertPanelShown /\ ~sensitivityLoading /\ lastExpertParams # None

\* The submit button of the mounted form is not disabled.
SubmitEnabled == ~loading

\* ---------------------------------------------------------- page: actions
\* Variant of SubmitSettle whose catch branch skips the reset of loading.
SubmitSettleWithoutFinally(outcome) ==
    /\ IF outcome = None
          THEN /\ error' = Some(ConnectionError)
               /\ UNCHANGED <<result, loading>>
          ELSE /\ loading' = FALSE
               /\ IF TruthyBool(outcome[1], "success")
                     THEN /\ result' = Some([res |-> outcome[1],
                                             fromMode |-> simReq.mode,
                                             params |-> simReq.data])
                          /\ UNCHANGED error
                     ELSE /\ error' = Some(ErrorOrFallback(outcome[1]))
                          /\ UNCHANGED result
    /\ simReq' = NoRequest

\* setState calls of a submit handler after its await.
SubmitSettle(outcome) ==
    /\ IF outcome = None
          THEN /\ error' = Some(ConnectionError)
               /\ UNCHANGED result
          ELSE IF TruthyBool(outcome[1], "success")
                  THEN /\ result' = Some([res |-> outcome[1],
                                          fromMode |-> simReq.mode,
                                          params |-> simReq.data])
                       /\ UNCHANGED error
                  ELSE /\ error' = Some(ErrorOrFallback(outcome[1]))
                       /\ UNCHANGED result
    /\ loading' = FALSE
    /\ simReq' = NoRequest

\* handleSimpleSubmit up to its await.
handleSimpleSubmit(data) ==
    /\ mode = "simple"
    /\ SubmitEnabled
    /\ loading' = TRUE
    /\ error' = None
    /\ sensitivityData' = NoSensitivityData
    /\ simReq' = [st |-> "pending", mode |-> "simple", data |-> data]
    /\ UNCHANGED <<mode, sensitivityLoading, result, lastExpertParams, sweep,
                   orphans>>

\* handleSimpleSubmit from its await on, the engine having answered `resp`.
handleSimpleSubmitResume(resp) ==
    /\ simReq.st = "pending"
    /\ simReq.mode = "simple"
    /\ SubmitSettle(simulateSimple(resp))
    /\ UNCHANGED <<mode, sensitivityLoading, lastExpertParams, sensitivityData,
                   sweep, orphans>>

\* handleExpertSubmit up to its await.
handleExpertSubmit(data) ==
    /\ mode = "expert"
    /\ SubmitEnabled
    /\ loading' = TRUE
    /\ error' = None
    /\ sensitivityData' = NoSensitivityData
    /\ lastExpertParams' = Some(data)
    /\ simReq' = [st |-> "pending", mode |-> "expert", data |-> data]
    /\ UNCHANGED <<mode, sensitivityLoading, result, sweep, orphans>>

\* handleExpertSubmit from its await on, the engine having answered `resp`.
handleExpertSubmitResume(resp) ==
    /\ simReq.st = "pending"
    /\ simReq.mode = "expert"
    /\ SubmitSettle(simulateExpert(resp))
    /\ UNCHANGED <<mode, sensitivityLoading, lastExpertParams, sensitivityData,
                   sweep, orphans>>

\* handleSensitivityAnalysis up to its await: both requests are issued with
\* the lastExpertParams of the render the handler closed over.
handleSensitivityAnalysis ==
    /\ SensitivityButtonEnabled
    /\ lastExpertParams # None
    /\ orphans < MaxOrphans
    /\ sensitivityLoading' = TRUE
    /\ sweep' = [loan |-> [st |-> "pending", base |-> lastExpertParams[1]],
                 growth |-> [st |-> "pending", base |-> lastExpertParams[1]]]
    /\ UNCHANGED <<mode, loading, result, error, lastExpertParams,
                   sensitivityData, simReq, orphans>>

\* The engine's answer to one sweep request reaches the browser.
SweepArrive(which, resp) ==
    /\ sweep[which].st = "pending"
    /\ sweep' = [sweep EXCEPT ![which] =
                    [st |-> "arrived", base |-> @.base, resp |-> resp]]
    /\ UNCHANGED <<mode, loading, sensitivityLoading, result, error,
                   lastExpertParams, sensitivityData, simReq, orphans>>

\* The answer to a request whose Promise.all has already rejected: dropped.
OrphanArrive ==
    /\ orphans > 0
    /\ orphans' = orphans - 1
    /\ UNCHANGED <<mode, loading, sensitivityLoading, result, error,
                   lastExpertParams, sensitivityData, simReq, sweep>>

SlotRejected(slot) == slot.st = "arrived" /\ Rejects(slot.resp)
SlotResolved(slot) == slot.st = "arrived" /\ ~Rejects(slot.resp)

\* Promise.all([...]) has settled: it rejects as soon as one request
\* rejects and resolves once both have resolved.
PromiseAllRejected == SlotRejected(sweep.loan) \/ SlotRejected(sweep.growth)
PromiseAllResolved == SlotResolved(sweep.loan) /\ SlotResolved(sweep.growth)

SweepSlot(slot) ==
    Some([res |-> runSensitivityAnalysis(slot.resp)[1], base |-> slot.base])

\* Variant of handleSensitivityAnalysisResume that does not join: each
\* request that resolved fills its own slot.
handleSensitivityAnalysisResumeEachSlot ==
    /\ PromiseAllRejected \/ PromiseAllResolved
    /\ sensitivityData' =
          [loanRate |-> IF SlotResolved(sweep.loan)
                           THEN SweepSlot(sweep.loan) ELSE None,
           growth |-> IF SlotResolved(sweep.growth)
                         THEN SweepSlot(sweep.growth) ELSE None]
    /\ sensitivityLoading' = FALSE
    /\ orphans' = orphans
                  + (IF sweep.loan.st = "pending" THEN 1 ELSE 0)
                  + (IF sweep.growth.st = "pending" THEN 1 ELSE 0)
    /\ sweep' = NoSweep
    /\ UNCHANGED <<mode, loading, result, error, lastExpertParams, simReq>>

\* handleSensitivityAnalysis from its await on.
handleSensitivityAnalysisResume ==
    /\ PromiseAllRejected \/ PromiseAllResolved
    /\ IF PromiseAllRejected
          THEN UNCHANGED sensitivityData
          ELSE sensitivityData' = [loanRate |-> SweepSlot(sweep.loan),
                                   growth |-> SweepSlot(sweep.growth)]
    /\ sensitivityLoading' = FALSE
    /\ orphans' = orphans
                  + (IF sweep.loan.st = "pending" THEN 1 ELSE 0)
                  + (IF sweep.growth.st = "pending" THEN 1 ELSE 0)
    /\ sweep' = NoSweep
    /\ UNCHANGED <<mode, loading, result, error, lastExpertParams, simReq>>

\* Variant of handleModeChange that also clears the loading flag.
handleModeChangeClearingLoading(newMode) ==
    /\ mode' = newMode
    /\ result' = None
    /\ error' = None
    /\ sensitivityData' = NoSensitivityData
    /\ loading' = FALSE
    /\ UNCHANGED <<sensitivityLoading, lastExpertParams, simReq, sweep, orphans>>

\* handleModeChange: the page's own state.
handleModeChange(newMode) ==
    /\ mode' = newMode
    /\ result' = None
    /\ error' = None
    /\ sensitivityData' = NoSensitivityData
    /\ UNCHANGED <<loading, sensitivityLoading, lastExpertParams, simReq,
                   sweep, orphans>>

PageInit ==
    /\ mode = "simple"
    /\ loading = FALSE
    /\ sensitivityLoading = FALSE
    /\ result = None
    /\ error = None
    /\ lastExpertParams = None
    /\ sensitivityData = NoSensitivityData
    /\ simReq = NoRequest
    /\ sweep = NoSweep
    /\ orphans = 0

\* ------------------------------------------------------------ forms: data
\* n as a fixed-point number (units of 1/10000).
Fixed(n) == n * 10000

\* Variant of Div100 that converts twice.
Div100Twice(x) == (x \div 100) \div 100

\* x / 100 on a fixed-point number.
Div100(x) == x \div 100

\* x * 100 on a fixed-point number.
Times100(x) == x * 100

\* `b.k` used as a condition, for a number-valued key (0 is falsy).
TruthyNum(b, k) == k \in DOMAIN b /\ b[k] # 0

\* b.k || alt
OrNum(b, k, alt) == IF TruthyNum(b, k) THEN b[k] ELSE alt

\* { ...prev, [field]: value }
Spread(prev, field, value) ==
    [k \in DOMAIN prev \cup {field} |-> IF k = field THEN value ELSE prev[k]]

\* The options of the location select (the answer of getLocations).
Locations == {"Lyon", "Paris"}
LeaseTypes == {"furnished_1yr", "unfurnished_3yr", "airbnb"}

\* Percents the user types into a percent input.
PercentInputs == {0, 8, 150}
\* Numbers the user types into a money, surface or rent input.
NumberInputs == {-1, 60}

\* useState initial value of SimulatorForm (loan_rate is held as a percent).
InitSimpleForm ==
    [location |-> "Lyon", price |-> 250000, surface_sqm |-> 45,
     monthly_rent |-> 900, apport |-> 50000, loan_rate |-> 35000]

\* Variant of InitForm that leaves the short-let fields out.
InitFormWithoutShortLet ==
    [location |-> "Lyon", property_price |-> 250000, surface_sqm |-> 45,
     agency_fees_pct |-> 0, notary_fees_pct |-> 800,
     initial_renovation |-> 0, furnishing_costs |-> 9000, apport |-> 50000,
     loan_rate |-> 350, loan_duration_years |-> 20,
     loan_insurance_rate |-> 30, lease_type |-> "furnished_1yr",
     monthly_rent |-> 900, vacancy_rate |-> 500, rent_growth_rate |-> 150,
     property_tax_yearly |-> 800, condo_fees_monthly |-> 100,
     pno_insurance_yearly |-> 150, maintenance_pct |-> 500,
     management_fee_pct |-> 700, tmi |-> 3000, holding_years |-> 10,
     property_growth_rate |-> 200, exit_fees_pct |-> 500]

\* useState initial value of ExpertSimulatorForm (rates are held as fractions).
InitForm ==
    [location |-> "Lyon", property_price |-> 250000, surface_sqm |-> 45,
     agency_fees_pct |-> 0, notary_fees_pct |-> 800,
     initial_renovation |-> 0, furnishing_costs |-> 9000, apport |-> 50000,
     loan_rate |-> 350, loan_duration_years |-> 20,
     loan_insurance_rate |-> 30, lease_type |-> "furnished_1yr",
     monthly_rent |-> 900, daily_rate |-> 80, vacancy_rate |-> 500,
     occupancy_rate |-> 7000, rent_growth_rate |-> 150,
     property_tax_yearly |-> 800, condo_fees_monthly |-> 100,
     pno_insurance_yearly |-> 150, maintenance_pct |-> 500,
     management_fee_pct |-> 700, tmi |-> 3000, holding_years |-> 10,
     property_growth_rate |-> 200, exit_fees_pct |-> 500]

\* The inputs of ExpertSimulatorForm whose onChange divides by 100.
PctFields ==
    {"notary_fees_pct", "loan_rate", "loan_insurance_rate", "vacancy_rate",
     "occupancy_rate", "rent_growth_rate", "maintenance_pct",
     "management_fee_pct", "property_growth_rate"}

\* The inputs of ExpertSimulatorForm whose onChange stores the number typed
\* (those the properties below read; the other number inputs and the tmi
\* select go through the same update and stay at their initial value in the
\* explored runs).
NumFields == {"property_price", "surface_sqm", "monthly_rent", "daily_rate"}

\* form.lease_type === 'airbnb' ? daily_rate, occupancy : monthly_rent, vacancy
Rendered(f, field) ==
    CASE field \in {"daily_rate", "occupancy_rate"} -> f.lease_type = "airbnb"
      [] field \in {"monthly_rent", "vacancy_rate"} -> f.lease_type # "airbnb"
      [] OTHER -> TRUE

\* The `value` attribute of a percent input: (form.x || d) * 100.
DisplayDefault(field) ==
    CASE field = "occupancy_rate" -> 7000
      [] field = "vacancy_rate" -> 500
      [] OTHER -> 0

DisplayPct(f, field) == Times100(OrNum(f, field, DisplayDefault(field)))

\* What the data service may answer about a location.
DefaultsBodies(loc) ==
    { [notary_pct |-> IF loc = "Lyon" THEN 750 ELSE 780,
       property_tax_per_sqm |-> IF loc = "Lyon" THEN 20 ELSE 30,
       condo_fees_per_sqm |-> 3, pno_insurance |-> 120,
       vacancy_rate |-> IF loc = "Lyon" THEN 300 ELSE 400,
       price_growth |-> 250, management_fee_pct |-> 600],
      [notary_pct |-> 750, pno_insurance |-> 0, vacancy_rate |-> 0],
      [error |-> "unknown location"] }

DefaultsResponses(loc) ==
    { [kind |-> "network"] }
    \cup { [kind |-> "json", status |-> 200, body |-> b] : b \in DefaultsBodies(loc) }

getLocationDefaults(resp) == IF Rejects(resp) THEN None ELSE Some(resp.body)

\* The form field each key of a defaults mapping feeds.
DefaultKey ==
    [notary_fees_pct |-> "notary_pct",
     property_tax_yearly |-> "property_tax_per_sqm",
     condo_fees_monthly |-> "condo_fees_per_sqm",
     pno_insurance_yearly |-> "pno_insurance",
     vacancy_rate |-> "vacancy_rate",
     property_growth_rate |-> "price_growth",
     management_fee_pct |-> "management_fee_pct"]

\* The updater passed to setForm by the defaults effect.
MergeDefaults(prev, defaults) ==
    [k \in DOMAIN prev \cup DOMAIN DefaultKey |->
        CASE k = "notary_fees_pct" ->
                OrNum(defaults, "notary_pct", prev.notary_fees_pct)
          [] k = "property_tax_yearly" ->
                OrNum(defaults, "property_tax_per_sqm", 0) * prev.surface_sqm
          [] k = "condo_fees_monthly" ->
                OrNum(defaults, "condo_fees_per_sqm", 0) * prev.surface_sqm
          [] k = "pno_insurance_yearly" ->
                OrNum(defaults, "pno_insurance", prev.pno_insurance_yearly)
          [] k = "vacancy_rate" ->
                OrNum(defaults, "vacancy_rate", prev.vacancy_rate)
          [] k = "property_growth_rate" ->
                OrNum(defaults, "price_growth", prev.property_growth_rate)
          [] k = "management_fee_pct" ->
                OrNum(defaults, "management_fee_pct", prev.management_fee_pct)
          [] OTHER -> prev[k]]

\* Variant of DefaultsUsable that does not look for an `error` key.
DefaultsUsableIgnoringError(outcome) == outcome # None

\* defaults && !('error' in defaults)
DefaultsUsable(outcome) == outcome # None /\ "error" \notin DOMAIN outcome[1]

NoPending == [l \in Locations |-> 0]
NothingEntered == [f \in PctFields |-> None]
NothingOverwritten == [f \in PctFields |-> FALSE]

\* --------------------------------------------------------- forms: actions
\* The number inputs of SimulatorForm explored (apport goes through the same
\* update).
SimpleNumFields == {"price", "surface_sqm", "monthly_rent"}

\* SimulatorForm: onChange of a number input, update(field, +e.target.value).
SimpleUpdate(field, value) ==
    /\ mode = "simple"
    /\ nEdits < MaxEdits
    /\ sform' = Spread(sform, field, value)
    /\ formOp' = [op |-> "edit"]
    /\ nEdits' = nEdits + 1
    /\ UNCHANGED <<form, pendingDefaults, sent, entered, overwritten, answered>>

\* SimulatorForm: onChange of the loan-rate input; the percent is stored as
\* typed.
SimpleUpdateLoanRate(p) ==
    /\ mode = "simple"
    /\ nEdits < MaxEdits
    /\ sform' = Spread(sform, "loan_rate", Fixed(p))
    /\ entered' = [entered EXCEPT !["loan_rate"] = Some(Fixed(p))]
    /\ formOp' = [op |-> "edit"]
    /\ nEdits' = nEdits + 1
    /\ UNCHANGED <<form, pendingDefaults, sent, overwritten, answered>>

\* The argument SimulatorForm.handleSubmit passes to onSubmit:
\* { ...form, loan_rate: form.loan_rate / 100 }.
SimplePayload(f) == Spread(f, "loan_rate", Div100(f.loan_rate))

\* SimulatorForm.handleSubmit.
SimulatorForm_handleSubmit ==
    /\ mode = "simple"
    /\ SubmitEnabled
    /\ sent' = Some(SimplePayload(sform))
    /\ formOp' = [op |-> "submit", form |-> "simple"]
    /\ UNCHANGED <<sform, form, pendingDefaults, entered, overwritten, nEdits,
                   answered>>

\* ExpertSimulatorForm.update(field, value).
update(field, value) ==
    /\ mode = "expert"
    /\ nEdits < MaxEdits
    /\ form' = Spread(form, field, value)
    /\ formOp' = [op |-> "edit"]
    /\ nEdits' = nEdits + 1

\* onChange of a percent input: update(field, +e.target.value / 100).
UpdatePercent(field, p) ==
    /\ Rendered(form, field)
    /\ update(field, Div100(Fixed(p)))
    /\ entered' = [entered EXCEPT ![field] = Some(Fixed(p))]
    /\ overwritten' = [overwritten EXCEPT ![field] = FALSE]
    /\ UNCHANGED <<sform, pendingDefaults, sent, answered>>

\* onChange of a number input: update(field, +e.target.value).
UpdateNumber(field, value) ==
    /\ Rendered(form, field)
    /\ update(field, value)
    /\ UNCHANGED <<sform, pendingDefaults, sent, entered, overwritten, answered>>

\* onClick of a lease-type button: update('lease_type', type).
UpdateLeaseType(type) ==
    /\ update("lease_type", type)
    /\ UNCHANGED <<sform, pendingDefaults, sent, entered, overwritten, answered>>

\* onChange of the location select: update('location', value); the effect
\* keyed on form.location then calls getLocationDefaults when it changed.
UpdateLocation(loc) ==
    /\ update("location", loc)
    /\ pendingDefaults' =
          IF loc # form.location
             THEN [pendingDefaults EXCEPT ![loc] = @ + 1]
             ELSE pendingDefaults
    /\ answered' = IF loc # form.location THEN None ELSE answered
    /\ UNCHANGED <<sform, sent, entered, overwritten>>

\* The percent fields a defaults mapping overwrites.
Overwrites(defaults) ==
    {f \in PctFields \cap DOMAIN DefaultKey : TruthyNum(defaults, DefaultKey[f])}

\* getLocationDefaults(...).then(...).catch(console.error) once the answer
\* for `loc` is in.
DefaultsEffect(loc, resp) ==
    /\ mode = "expert"
    /\ pendingDefaults[loc] > 0
    /\ pendingDefaults' = [pendingDefaults EXCEPT ![loc] = @ - 1]
    /\ LET outcome == getLocationDefaults(resp) IN
          IF DefaultsUsable(outcome)
             THEN /\ form' = MergeDefaults(form, outcome[1])
                  /\ overwritten' =
                        [f \in PctFields |->
                            overwritten[f] \/ f \in Overwrites(outcome[1])]
             ELSE UNCHANGED <<form, overwritten>>
    /\ formOp' = [op |-> "defaults", resp |-> resp]
    /\ answered' = IF loc = form.location THEN Some(resp) ELSE answered
    /\ UNCHANGED <<sform, sent, entered, nEdits>>

\* The argument ExpertSimulatorForm.handleSubmit passes to onSubmit: the
\* form state as it is, every key included.
ExpertPayload(f) == f

\* ExpertSimulatorForm.handleSubmit.
ExpertSimulatorForm_handleSubmit ==
    /\ mode = "expert"
    /\ SubmitEnabled
    /\ sent' = Some(ExpertPayload(form))
    /\ formOp' = [op |-> "submit", form |-> "expert"]
    /\ UNCHANGED <<sform, form, pendingDefaults, entered, overwritten, nEdits,
                   answered>>

\* The page renders the form of `newMode`: a component that was not mounted
\* starts from its initial state and runs its effects; the other one is gone.
Mount(newMode) ==
    IF newMode = mode
       THEN UNCHANGED formVars
       ELSE /\ sform' = InitSimpleForm
            /\ form' = InitForm
            /\ pendingDefaults' =
                  IF newMode = "expert"
                     THEN [NoPending EXCEPT ![InitForm.location] = 1]
                     ELSE NoPending
            /\ sent' = None
            /\ entered' = NothingEntered
            /\ overwritten' = NothingOverwritten
            /\ formOp' = [op |-> "mount"]
            /\ nEdits' = 0
            /\ answered' = None

FormInit ==
    /\ sform = InitSimpleForm
    /\ form = InitForm
    /\ pendingDefaults = NoPending
    /\ sent = None
    /\ entered = NothingEntered
    /\ overwritten = NothingOverwritten
    /\ formOp = [op |-> "mount"]
    /\ nEdits = 0
    /\ answered = None

\* ------------------------------------------------------- derived views
\* Years of a cash-flow series a chart is given.
MaxYears == 4

\* ScoreGauge's default thresholds: riskFreeRate = 0.035, discountRate = 0.05.
DefaultRiskFreeRate == 350
DefaultDiscountRate == 500

\* A destructured prop with a default value: `undefined` takes the default.
PropOr(prop, default) == IF prop = None THEN default ELSE prop[1]

GoodInfo == [color |-> "#22c55e", label |-> "good_investment"]
AcceptableInfo == [color |-> "#eab308", label |-> "Acceptable"]
PoorInfo == [color |-> "#ef4444", label |-> "poor_return"]

\* Variant of getScoreInfo whose upper comparison is not strict.
getScoreInfoNonStrict(irr, riskFreeRate, discountRate) ==
    IF irr >= discountRate THEN GoodInfo
    ELSE IF irr > riskFreeRate THEN AcceptableInfo
    ELSE PoorInfo

\* Variant of getScoreInfo without the middle bucket.
getScoreInfoTwoBuckets(irr, riskFreeRate, discountRate) ==
    IF irr > discountRate THEN GoodInfo ELSE PoorInfo

\* ScoreGauge.getScoreInfo.
getScoreInfo(irr, riskFreeRate, discountRate) ==
    IF irr > discountRate THEN GoodInfo
    ELSE IF irr > riskFreeRate THEN AcceptableInfo
    ELSE PoorInfo

\* The props ScoreGauge is rendered with (rates in units of 1/10000).
IrrValues == {-100, 200, 350, 400, 500, 600}
RiskFreeProps == {None, Some(200), Some(500)}
DiscountProps == {None, Some(400), Some(600)}

\* ScoreGauge({ irr, riskFreeRate = 0.035, discountRate = 0.05 }), mounted
\* with its props; the component keeps no state from one render to the next.
RenderScoreGauge(irr, riskFreeProp, discountProp) ==
    LET riskFreeRate == PropOr(riskFreeProp, DefaultRiskFreeRate)
        discountRate == PropOr(discountProp, DefaultDiscountRate)
    IN  /\ gauge = None
        /\ gauge' = Some([irr |-> irr,
                          riskFreeRate |-> riskFreeRate,
                          discountRate |-> discountRate,
                          info |-> getScoreInfo(irr, riskFreeRate, discountRate)])
        /\ UNCHANGED <<chart, dashboard>>

\* The cumulative values and the first year of the series explored.
CumulativeValues == {-1000, 0, 200}
FirstYears == {0, 1}

\* YearlyCashFlow[] : one entry per year, in year order.
CashFlowSeries ==
    UNION { { [k \in 1..n |-> [year |-> y0 + k - 1, cumulative |-> c[k]]] :
                c \in [1..n -> CumulativeValues], y0 \in FirstYears } :
            n \in 0..MaxYears }

\* Variant of Crosses that wants a positive value.
CrossesStrictly(data, i) ==
    /\ i > 1
    /\ data[i-1].cumulative < 0
    /\ data[i].cumulative > 0

\* The callback of data.find, at the entry of (1-based) position i:
\* i > 0 && data[i-1].cumulative < 0 && d.cumulative >= 0.
Crosses(data, i) ==
    /\ i > 1
    /\ data[i-1].cumulative < 0
    /\ data[i].cumulative >= 0

\* Array.prototype.find: the first entry, from position i on, the callback
\* accepts; undefined when there is none.
RECURSIVE FindFrom(_, _)
FindFrom(data, i) ==
    IF i > Len(data) THEN None
    ELSE IF Crosses(data, i) THEN Some(data[i])
    ELSE FindFrom(data, i + 1)

\* Variant of breakevenYear that takes the first non-negative entry after the
\* first one.
breakevenYearOfFirstNonNegative(data) ==
    LET S == {i \in 2..Len(data) : data[i].cumulative >= 0}
    IN  IF S = {} THEN None
        ELSE Some(data[CHOOSE i \in S : \A j \in S : i <= j].year)

\* data.find(...)?.year
breakevenYear(data) ==
    LET found == FindFrom(data, 1)
    IN  IF found = None THEN None ELSE Some(found[1].year)

\* {breakevenYear && (...)} : the breakeven badge is rendered.
BreakevenBadgeShown(year) == year # None /\ year[1] # 0

\* CumulativeCashFlowChart({ data }), mounted with its props.
RenderCumulativeCashFlowChart(data) ==
    /\ chart = None
    /\ chart' = Some([data |-> data,
                      breakevenYear |-> breakevenYear(data),
                      badge |-> BreakevenBadgeShown(breakevenYear(data))])
    /\ UNCHANGED <<gauge, dashboard>>

\* ResultsDashboard's thresholds on metrics.irr: isGoodIRR = irr > 0.05, and
\* the IRR card's positive = irr > 0.03.
GoodIrrThreshold == 500
PositiveIrrThreshold == 300

\* The metrics ResultsDashboard is rendered with.
MetricsValues ==
    { [irr |-> i, npv |-> v, monthly_cashflow |-> v] :
        i \in IrrValues \cup {320}, v \in {-1, 0, 1} }

\* positive={metrics.irr > 0.03}
IrrCardPositive(metrics) == metrics.irr > PositiveIrrThreshold

\* const isGoodIRR = metrics.irr > 0.05
IsGoodIRR(metrics) == metrics.irr > GoodIrrThreshold

\* ResultsDashboard({ metrics }), mounted with its props: the verdict banner
\* and the colour of the IRR, NPV and cash-flow cards (the multiple card
\* takes no colour).
RenderResultsDashboard(metrics) ==
    /\ dashboard = None
    /\ dashboard' =
          Some([metrics |-> metrics,
                banner |-> IF IsGoodIRR(metrics)
                              THEN "Bon investissement"
                              ELSE "Rentabilite faible",
                irrPositive |-> IrrCardPositive(metrics),
                npvPositive |-> metrics.npv > 0,
                cashflowPositive |-> metrics.monthly_cashflow >= 0])
    /\ UNCHANGED <<gauge, chart>>

ViewInit ==
    /\ gauge = None
    /\ chart = None
    /\ dashboard = None

\* --------------------------------------------------------- specifications
Init == PageInit /\ FormInit /\ ViewInit

\* The simulator page; the forms are seen through the data they submit.
Next ==
    \/ \E d \in ParamIds : handleSimpleSubmit(d) /\ UNCHANGED <<formVars, viewVars>>
    \/ \E d \in ParamIds : handleExpertSubmit(d) /\ UNCHANGED <<formVars, viewVars>>
    \/ \E r \in SimResponses : handleSimpleSubmitResume(r) /\ UNCHANGED <<formVars, viewVars>>
    \/ \E r \in SimResponses : handleExpertSubmitResume(r) /\ UNCHANGED <<formVars, viewVars>>
    \/ handleSensitivityAnalysis /\ UNCHANGED <<formVars, viewVars>>
    \/ \E w \in {"loan", "growth"}, r \in SensResponses :
          SweepArrive(w, r) /\ UNCHANGED <<formVars, viewVars>>
    \/ OrphanArrive /\ UNCHANGED <<formVars, viewVars>>
    \/ handleSensitivityAnalysisResume /\ UNCHANGED <<formVars, viewVars>>
    \/ \E m \in Modes : handleModeChange(m) /\ UNCHANGED <<formVars, viewVars>>

Spec == Init /\ [][Next]_vars

\* Every issued request is eventually answered and the handler awaiting it
\* is then resumed by the event loop.
SimulateSettles ==
    \E r \in SimResponses :
        (handleSimpleSubmitResume(r) \/ handleExpertSubmitResume(r))
            /\ UNCHANGED <<formVars, viewVars>>
SweepSettles(w) ==
    \E r \in SensResponses : SweepArrive(w, r) /\ UNCHANGED <<formVars, viewVars>>
JoinResumes == handleSensitivityAnalysisResume /\ UNCHANGED <<formVars, viewVars>>

Fairness ==
    /\ WF_vars(SimulateSettles)
    /\ WF_vars(SweepSettles("loan"))
    /\ WF_vars(SweepSettles("growth"))
    /\ WF_vars(JoinResumes)

\* The simulator page with one parameter set submitted over and over (the
\* busy flags do not depend on what is submitted), under the assumption that
\* requests settle.
LiveNext ==
    \/ handleSimpleSubmit(1) /\ UNCHANGED <<formVars, viewVars>>
    \/ handleExpertSubmit(1) /\ UNCHANGED <<formVars, viewVars>>
    \/ \E r \in SimResponses : handleSimpleSubmitResume(r) /\ UNCHANGED <<formVars, viewVars>>
    \/ \E r \in SimResponses : handleExpertSubmitResume(r) /\ UNCHANGED <<formVars, viewVars>>
    \/ handleSensitivityAnalysis /\ UNCHANGED <<formVars, viewVars>>
    \/ \E w \in {"loan", "growth"}, r \in SensResponses :
          SweepArrive(w, r) /\ UNCHANGED <<formVars, viewVars>>
    \/ OrphanArrive /\ UNCHANGED <<formVars, viewVars>>
    \/ handleSensitivityAnalysisResume /\ UNCHANGED <<formVars, viewVars>>
    \/ \E m \in Modes : handleModeChange(m) /\ UNCHANGED <<formVars, viewVars>>

LiveSpec == Init /\ [][LiveNext]_vars /\ Fairness

\* The forms; the page is seen through the props it passes (mode, loading,
\* onSubmit).
FormNext ==
    \/ \E f \in SimpleNumFields, v \in NumberInputs :
          SimpleUpdate(f, v) /\ UNCHANGED <<pageVars, viewVars>>
    \/ \E p \in PercentInputs : SimpleUpdateLoanRate(p) /\ UNCHANGED <<pageVars, viewVars>>
    \/ SimulatorForm_handleSubmit /\ UNCHANGED <<pageVars, viewVars>>
    \/ \E f \in PctFields, p \in PercentInputs :
          UpdatePercent(f, p) /\ UNCHANGED <<pageVars, viewVars>>
    \/ \E f \in NumFields, v \in NumberInputs :
          UpdateNumber(f, v) /\ UNCHANGED <<pageVars, viewVars>>
    \/ \E t \in LeaseTypes : UpdateLeaseType(t) /\ UNCHANGED <<pageVars, viewVars>>
    \/ \E l \in Locations : UpdateLocation(l) /\ UNCHANGED <<pageVars, viewVars>>
    \/ \E l \in Locations : \E r \in DefaultsResponses(l) :
          DefaultsEffect(l, r) /\ UNCHANGED <<pageVars, viewVars>>
    \/ ExpertSimulatorForm_handleSubmit /\ UNCHANGED <<pageVars, viewVars>>
    \/ \E m \in Modes : handleModeChange(m) /\ Mount(m) /\ UNCHANGED viewVars

FormSpec == Init /\ [][FormNext]_vars

\* The derived-view components, each rendered with props of its own.
ViewNext ==
    \/ \E irr \in IrrValues, rf \in RiskFreeProps, dr \in DiscountProps :
          RenderScoreGauge(irr, rf, dr) /\ UNCHANGED <<pageVars, formVars>>
    \/ \E data \in CashFlowSeries :
          RenderCumulativeCashFlowChart(data) /\ UNCHANGED <<pageVars, formVars>>
    \/ \E metrics \in MetricsValues :
          RenderResultsDashboard(metrics) /\ UNCHANGED <<pageVars, formVars>>

ViewSpec == Init /\ [][ViewNext]_vars

\* ------------------------------------------------ response shapes: results
\* Decoded simulate bodies of differing shape: the documented
\* SimulationResponse with all, some or none of its optional sections, and
\* bodies that are not a SimulationResponse.
ShapedBodies ==
    { [success |-> TRUE, metrics |-> [irr |-> 600],
       fiscal |-> [regime |-> "micro"], yearly_cashflows |-> <<1>>,
       alerts |-> <<"a">>, lmp_status |-> [is_lmp |-> TRUE]],
      [success |-> TRUE, metrics |-> [irr |-> 600], alerts |-> <<"a">>,
       lmp_status |-> [k \in {} |-> TRUE]],
      [success |-> TRUE, metrics |-> [irr |-> 600]],
      [success |-> TRUE, metrics |-> [note |-> "n/a"]],
      [metrics |-> [irr |-> 600]],
      [success |-> FALSE, error |-> "quota exceeded"] }

ShapedResponses ==
    { [kind |-> "network"] }
    \cup { [kind |-> "json", status |-> 200, body |-> b] : b \in ShapedBodies }

\* The props the page passes to ResultsDashboard: metrics={result.metrics}
\* fiscal={result.fiscal} yearly_cashflows={...} alerts={...}; a key the
\* result lacks is passed as undefined.
DashboardSections == {"fiscal", "yearly_cashflows", "alerts"}
DashboardProps ==
    IF ResultsShown
       THEN [k \in (DashboardSections \cup {"metrics"}) \cap DOMAIN result[1].res
                |-> result[1].res[k]]
       ELSE [k \in {} |-> None]

\* expertResult?.lmp_status && Object.keys(expertResult.lmp_status).length > 0
LMPStatusShown ==
    /\ ExpertPanelShown
    /\ TruthyObj(result[1].res, "lmp_status")
    /\ DOMAIN result[1].res.lmp_status # {}

\* An optional section of the result is on screen.
SectionShown(section) ==
    IF section = "lmp_status"
       THEN LMPStatusShown
       ELSE ResultsShown /\ section \in DOMAIN DashboardProps

\* The page's submit handlers and mode switch, answered with bodies of every
\* shape.
ResultNext ==
    \/ \E d \in ParamIds :
          handleSimpleSubmit(d) /\ UNCHANGED <<formVars, viewVars>>
    \/ \E d \in ParamIds :
          handleExpertSubmit(d) /\ UNCHANGED <<formVars, viewVars>>
    \/ \E r \in ShapedResponses :
          handleSimpleSubmitResume(r) /\ UNCHANGED <<formVars, viewVars>>
    \/ \E r \in ShapedResponses :
          handleExpertSubmitResume(r) /\ UNCHANGED <<formVars, viewVars>>
    \/ \E m \in Modes : handleModeChange(m) /\ UNCHANGED <<formVars, viewVars>>

ResultSpec == Init /\ [][ResultNext]_vars

\* ------------------------------------------------------ properties: page
\* A step in which a submit handler resumes on the answer r.
SubmitResumes(r) ==
    \/ handleSimpleSubmitResume(r) /\ UNCHANGED formVars
    \/ handleExpertSubmitResume(r) /\ UNCHANGED formVars

\* A step in which handleSensitivityAnalysis resumes from its await.
SensitivityResumes == sensitivityLoading /\ ~sensitivityLoading'

SweepFails(slot) ==
    /\ slot.st = "arrived"
    /\ \/ Rejects(slot.resp)
       \/ ~("success" \in DOMAIN slot.resp.body /\ slot.resp.body.success = TRUE)

SweepSucceedsWithPoints(slot) ==
    /\ slot.st = "arrived"
    /\ ~Rejects(slot.resp)
    /\ "success" \in DOMAIN slot.resp.body /\ slot.resp.body.success = TRUE
    /\ "points" \in DOMAIN slot.resp.body /\ Len(slot.resp.body.points) > 0

\* C1: the two sweeps are independent.  Whenever handleSensitivityAnalysis
\* resumes with the expert results on screen, one sweep having failed in any
\* way (rejected request, malformed body, success:false) and the other having
\* succeeded with points, the chart of the successful sweep is displayed and
\* the chart of the failed one is absent.
C1_SweepsIndependent ==
    [][ (SensitivityResumes /\ ExpertPanelShown')
        => /\ (SweepFails(sweep.loan) /\ SweepSucceedsWithPoints(sweep.growth))
                => (GrowthChartShown' /\ ~LoanChartShown')
           /\ (SweepFails(sweep.growth) /\ SweepSucceedsWithPoints(sweep.loan))
                => (LoanChartShown' /\ ~GrowthChartShown') ]_vars

\* network unreachable, malformed JSON body, or a non-2xx status.
TransportFailure(r) ==
    \/ r.kind \in {"network", "malformed"}
    \/ r.status < 200 \/ r.status > 299

\* C2: every transport-level failure of a simulate call (network
\* unreachable, non-2xx status, malformed JSON body) ends with the generic
\* connection-error message displayed, never with a server-supplied message
\* or the 'Unknown error' fallback.
C2_TransportFailureGeneric ==
    [][ \A r \in SimResponses :
          (SubmitResumes(r) /\ TransportFailure(r))
             => error' = Some(ConnectionError) ]_vars

\* The answer decodes to a payload with success:false.
AppFailure(r) ==
    /\ r.kind = "json"
    /\ "success" \in DOMAIN r.body
    /\ r.body.success = FALSE

\* C3 as claimed: on a success:false payload the error displayed is the
\* server-supplied message whenever the payload carries one, the fallback
\* only when it carries none, and the result is not updated.
C3_MessageVerbatimWheneverCarried ==
    [][ \A r \in SimResponses :
          (SubmitResumes(r) /\ AppFailure(r))
             => /\ error' = Some(IF "error" \in DOMAIN r.body
                                    THEN r.body.error
                                    ELSE "Unknown error")
                /\ result' = result ]_vars

\* C3 (amended): on a success:false payload the error displayed is the
\* server-supplied message whenever the payload carries a non-empty one, the
\* fallback when the message is absent or empty, and the result is not
\* updated.
C3_MessageVerbatimWhenNonEmpty ==
    [][ \A r \in SimResponses :
          (SubmitResumes(r) /\ AppFailure(r))
             => /\ error' = Some(IF "error" \in DOMAIN r.body /\ r.body.error # ""
                                    THEN r.body.error
                                    ELSE "Unknown error")
                /\ result' = result ]_vars

\* C3 witness: a success:false answer with a message has been handled while an
\* earlier result was held, and the message is on display.
C3_Witness ==
    /\ error = Some("quota exceeded")
    /\ result # None
    /\ ~loading

\* ----------------------------------------------------- properties: forms
\* onSubmit has just been called by the simple / the expert form.
SimpleSubmitted == formOp.op = "submit" /\ formOp.form = "simple"
ExpertSubmitted == formOp.op = "submit" /\ formOp.form = "expert"

\* The percent-typed fields of the form that has just submitted.
SubmittedPctFields ==
    IF formOp.form = "simple" THEN {"loan_rate"} ELSE PctFields

\* C4 as claimed: after any sequence of edits and submits, each percent field
\* of the transmitted payload is the last percent the user entered divided by
\* 100 exactly once (so 100 times the payload value is the entered percent).
C4_PayloadIsLastEnteredOver100 ==
    formOp.op = "submit" =>
        \A f \in SubmittedPctFields :
            entered[f] # None => sent[1][f] * 100 = entered[f][1]

\* C4 (amended): the same, for every percent field that no location-defaults
\* merge has overwritten since the user's last entry (the merge writes
\* notary fees, vacancy, price growth and management fee when the location's
\* default is non-zero).
C4_PayloadIsLastEnteredOver100UnlessMerged ==
    formOp.op = "submit" =>
        \A f \in SubmittedPctFields :
            (entered[f] # None /\ ~overwritten[f])
                => sent[1][f] * 100 = entered[f][1]

\* C4 witness: the expert form has submitted a loan rate typed as 8, and the
\* payload carries 0.08.
C4_Witness ==
    /\ ExpertSubmitted
    /\ entered["loan_rate"] = Some(Fixed(8))
    /\ sent[1].loan_rate = 800

\* C5: for every percent field of the expert form and every entered percent p
\* (0 included), the input shows p again once p/100 is stored.
C5_PercentRoundTrip ==
    mode = "expert" =>
        \A f \in PctFields :
            (entered[f] # None /\ ~overwritten[f])
                => DisplayPct(form, f) = entered[f][1]

\* Every percentage-typed key of ExpertSimulationRequest.
AllPctFields == PctFields \cup {"agency_fees_pct", "exit_fees_pct", "tmi"}

InUnitInterval(x) == 0 <= x /\ x <= Fixed(1)

\* C6: in every reachable state of the expert form every percentage-typed
\* field is stored as a fraction in [0,1], and so is every percentage-typed
\* field of a payload passed to onSubmit.
C6_FractionsInUnitInterval ==
    mode = "expert" =>
        /\ \A f \in AllPctFields : InUnitInterval(form[f])
        /\ ExpertSubmitted => \A f \in AllPctFields : InUnitInterval(sent[1][f])

\* C7: every payload passed to onSubmit by either form has non-negative
\* price, surface area and rent.
C7_PayloadNonNegative ==
    /\ SimpleSubmitted =>
          sent[1].price >= 0 /\ sent[1].surface_sqm >= 0 /\ sent[1].monthly_rent >= 0
    /\ ExpertSubmitted =>
          /\ sent[1].property_price >= 0
          /\ sent[1].surface_sqm >= 0
          /\ sent[1].monthly_rent >= 0
          /\ sent[1].daily_rate >= 0

\* C8: every expert payload carries daily_rate and occupancy_rate when its
\* lease_type is airbnb, and monthly_rent and vacancy_rate otherwise.
C8_LeaseFieldsCarried ==
    ExpertSubmitted =>
        /\ "lease_type" \in DOMAIN sent[1]
        /\ IF sent[1].lease_type = "airbnb"
              THEN {"daily_rate", "occupancy_rate"} \subseteq DOMAIN sent[1]
              ELSE {"monthly_rent", "vacancy_rate"} \subseteq DOMAIN sent[1]

\* C8 witness: an airbnb payload has been submitted after a switch of lease
\* type and an edit of the daily rate.
C8_Witness ==
    /\ ExpertSubmitted
    /\ sent[1].lease_type = "airbnb"
    /\ sent[1].daily_rate = 60
    /\ "occupancy_rate" \in DOMAIN sent[1]

\* C9: an airbnb submission's payload does not depend on monthly_rent and
\* vacancy_rate: the form states that differ from the submitted one only in
\* these two fields produce the same payload.
C9_AirbnbPayloadIgnoresRentAndVacancy ==
    (ExpertSubmitted /\ form.lease_type = "airbnb") =>
        \A m \in NumberInputs, p \in PercentInputs :
            ExpertPayload(Spread(Spread(form, "monthly_rent", m),
                                 "vacancy_rate", Div100(Fixed(p))))
                = ExpertPayload(form)

\* A step in which the defaults effect handles the answer in formOp'.
DefaultsHandled ==
    formOp'.op = "defaults" /\ pendingDefaults' # pendingDefaults

\* The answer carries a non-zero default for form field k.
DefaultPresent(resp, k) ==
    /\ resp.kind = "json"
    /\ k \in DOMAIN DefaultKey
    /\ DefaultKey[k] \in DOMAIN resp.body
    /\ resp.body[DefaultKey[k]] # 0

\* C10: when location defaults arrive, every form field whose default is
\* absent or zero keeps its prior value, property_tax_yearly and
\* condo_fees_monthly included.
C10_AbsentDefaultKeepsField ==
    [][ DefaultsHandled =>
          \A k \in DOMAIN form :
              ~DefaultPresent(formOp'.resp, k) => form'[k] = form[k] ]_vars

\* The user has selected one other location since the form was mounted, has
\* made no other edit, and every defaults fetch (the mount's and the
\* selection's) has completed.
BothFetchesCompleted ==
    /\ mode = "expert"
    /\ nEdits = 1
    /\ form.location # InitForm.location
    /\ pendingDefaults = NoPending

\* C11: last-location-selected wins.  After the user selects location A and
\* then location B and both defaults fetches have completed, in whatever
\* order the two answers arrive, every form field for which B's answer has a
\* default holds the value derived from B's defaults.
C11_LastLocationWins ==
    (BothFetchesCompleted /\ answered # None
        /\ DefaultsUsable(getLocationDefaults(answered[1])))
    => LET b == getLocationDefaults(answered[1])[1] IN
          \A k \in DOMAIN DefaultKey :
              TruthyNum(b, DefaultKey[k]) => form[k] = MergeDefaults(form, b)[k]

\* The fetch whose answer is `resp` failed: the promise rejected, or the
\* mapping decoded carries an `error` key.
DefaultsFetchFailed(resp) ==
    \/ resp.kind \in {"network", "malformed"}
    \/ "error" \in DOMAIN resp.body

\* C12: a failed location-defaults fetch is swallowed.  When the fetch
\* rejects or answers an {error} mapping, no field of the expert form
\* changes, the page's error is not touched, and the payload a submit would
\* transmit is the one it would have transmitted before.
C12_FailedDefaultsSwallowed ==
    [][ (DefaultsHandled /\ DefaultsFetchFailed(formOp'.resp))
          => /\ form' = form
             /\ error' = error
             /\ ExpertPayload(form') = ExpertPayload(form)
             /\ sent' = sent ]_vars

\* C12 witness: a failed fetch has just been handled on a form holding a
\* percent the user typed.
C12_Witness ==
    /\ formOp.op = "defaults"
    /\ DefaultsFetchFailed(formOp.resp)
    /\ \E f \in PctFields : entered[f] # None /\ form[f] = Div100(entered[f][1])

\* ------------------------------------------------- properties: derived views
\* The three conditions of the specified classification, for the gauge as
\* rendered.
IsGood(g) == g.irr > g.discountRate
IsAcceptable(g) == g.riskFreeRate < g.irr /\ g.irr <= g.discountRate
IsPoor(g) == g.irr <= g.riskFreeRate

SpecifiedClassification(g) ==
    /\ g.info = GoodInfo <=> IsGood(g)
    /\ g.info = AcceptableInfo <=> IsAcceptable(g)
    /\ g.info = PoorInfo <=> IsPoor(g)

\* C13 as claimed: for every irr, risk_free_rate and discount_rate the gauge
\* says 'good' iff irr > discount_rate, 'acceptable' iff risk_free_rate <
\* irr <= discount_rate, and 'poor' iff irr <= risk_free_rate.
C13_ClassificationAsSpecified ==
    gauge # None => SpecifiedClassification(gauge[1])

\* C13 (amended): the same, for thresholds with risk_free_rate <=
\* discount_rate; in particular irr = discount_rate is 'acceptable' and
\* irr = risk_free_rate is 'poor'.
C13_ClassificationAsSpecifiedWhenOrdered ==
    (gauge # None /\ gauge[1].riskFreeRate <= gauge[1].discountRate)
        => /\ SpecifiedClassification(gauge[1])
           /\ gauge[1].irr = gauge[1].discountRate
                 /\ gauge[1].riskFreeRate < gauge[1].discountRate
                 => gauge[1].info = AcceptableInfo
           /\ gauge[1].irr = gauge[1].riskFreeRate => gauge[1].info = PoorInfo

\* C13 witness: the gauge rendered with the default thresholds and an irr
\* equal to the discount rate shows 'acceptable'.
C13_Witness ==
    /\ gauge # None
    /\ gauge[1].riskFreeRate = DefaultRiskFreeRate
    /\ gauge[1].discountRate = DefaultDiscountRate
    /\ gauge[1].irr = gauge[1].discountRate
    /\ gauge[1].info = AcceptableInfo

\* The conditions of the specified classification that hold for g.
Holding(g) ==
    {c \in {"good", "acceptable", "poor"} :
        \/ c = "good" /\ IsGood(g)
        \/ c = "acceptable" /\ IsAcceptable(g)
        \/ c = "poor" /\ IsPoor(g)}

InfoOf(c) ==
    CASE c = "good" -> GoodInfo
      [] c = "acceptable" -> AcceptableInfo
      [] c = "poor" -> PoorInfo

\* C14 as claimed: for every irr and every pair of thresholds ScoreGauge
\* accepts, exactly one of the three conditions holds.
C14_StrictPartition ==
    gauge # None => Cardinality(Holding(gauge[1])) = 1

\* C14 (amended): for every irr and every pair of thresholds with
\* risk_free_rate <= discount_rate, exactly one of the three conditions
\* holds, and it is the one whose bucket the gauge shows.
C14_StrictPartitionWhenOrdered ==
    (gauge # None /\ gauge[1].riskFreeRate <= gauge[1].discountRate)
        => /\ Cardinality(Holding(gauge[1])) = 1
           /\ \A c \in Holding(gauge[1]) : gauge[1].info = InfoOf(c)

\* C14 witness: the gauge rendered at the lower boundary, irr equal to the
\* risk-free rate, with thresholds passed by the caller.
C14_Witness ==
    /\ gauge # None
    /\ gauge[1].riskFreeRate = 200
    /\ gauge[1].discountRate = 400
    /\ gauge[1].irr = 200
    /\ gauge[1].info = PoorInfo

\* The positions i > 1 of a series where the cumulative value goes from
\* negative at i-1 to non-negative at i.
Transitions(data) ==
    {i \in 2..Len(data) : data[i-1].cumulative < 0 /\ data[i].cumulative >= 0}

Least(S) == CHOOSE i \in S : \A j \in S : i <= j

\* C15: for every yearly cash-flow series, breakeven detection returns the
\* year of the first entry at index i > 0 with cumulative[i-1] < 0 and
\* cumulative[i] >= 0, even when the series crosses zero several times, and
\* 'no breakeven' when there is no such transition (always negative, never
\* negative, or empty).
C15_BreakevenIsFirstTransition ==
    chart # None =>
        LET data == chart[1].data IN
            /\ Transitions(data) # {}
                  => chart[1].breakevenYear = Some(data[Least(Transitions(data))].year)
            /\ Transitions(data) = {} => chart[1].breakevenYear = None
            /\ (\A i \in 1..Len(data) : data[i].cumulative < 0)
                  => chart[1].breakevenYear = None
            /\ (\A i \in 1..Len(data) : data[i].cumulative >= 0)
                  => chart[1].breakevenYear = None

\* C15 witness: a series that crosses zero twice has been rendered and the
\* year reported is that of the first crossing.
C15_Witness ==
    /\ chart # None
    /\ Cardinality(Transitions(chart[1].data)) = 2
    /\ chart[1].breakevenYear = Some(chart[1].data[2].year)

\* The entries whose cumulative value is non-negative and that come after
\* some earlier entry with a negative cumulative value.
NonNegativeAfterNegative(data) ==
    {i \in 1..Len(data) :
        /\ data[i].cumulative >= 0
        /\ \E j \in 1..(i-1) : data[j].cumulative < 0}

\* C16: the breakeven year reported by the adjacent-pair scan equals the
\* glossary definition for every cumulative series: the first entry whose
\* cumulative value is non-negative and that comes after some earlier entry
\* with a negative value; it is absent exactly when there is no such entry.
C16_ScanEqualsGlossary ==
    chart # None =>
        LET data == chart[1].data
            G == NonNegativeAfterNegative(data)
        IN  /\ G # {} => chart[1].breakevenYear = Some(data[Least(G)].year)
            /\ chart[1].breakevenYear = None <=> G = {}

\* C16 witness: a series that starts non-negative, goes negative and comes
\* back has been rendered, and the year of the return is reported.
C16_Witness ==
    /\ chart # None
    /\ Len(chart[1].data) >= 3
    /\ chart[1].data[1].cumulative >= 0
    /\ chart[1].data[2].cumulative < 0
    /\ chart[1].data[3].cumulative >= 0
    /\ chart[1].breakevenYear = Some(chart[1].data[3].year)

\* C17: if no expert submission has occurred in the session, running the
\* sensitivity analysis is a no-op: the button that calls
\* handleSensitivityAnalysis is disabled, and no step issues a sweep request
\* or changes sensitivityLoading; the handler thus leaves sensitivityData,
\* result and error as they are and raises no error.
C17_NoExpertSubmissionNoSweep ==
    [][ lastExpertParams = None
          => /\ ~SensitivityButtonEnabled
             /\ ~ENABLED handleSensitivityAnalysis
             /\ sweep' = sweep
             /\ sensitivityLoading' = sensitivityLoading
             /\ orphans' = orphans ]_vars

\* C17 witness: the expert panel, with the sensitivity button, is on screen
\* and no expert submission has occurred (the result on display is the answer
\* to a simple submit that was still in flight when the mode was switched).
C17_Witness ==
    /\ ExpertPanelShown
    /\ lastExpertParams = None
    /\ ~sensitivityLoading
    /\ ~loading

\* The response held in a chart slot has success = true and carries a
\* non-empty point sequence.
SuccessWithPoints(slot) ==
    /\ slot # None
    /\ "success" \in DOMAIN slot[1].res /\ slot[1].res.success = TRUE
    /\ "points" \in DOMAIN slot[1].res /\ Len(slot[1].res.points) > 0

\* C18: a sensitivity chart (loan-rate or growth) is rendered only if its own
\* response has success = true and carries a non-empty point sequence; a
\* response with success = true and an empty points array renders no chart.
C18_ChartOnlyWithPoints ==
    /\ LoanChartShown => SuccessWithPoints(sensitivityData.loanRate)
    /\ GrowthChartShown => SuccessWithPoints(sensitivityData.growth)

\* C19: handleSensitivityAnalysis joins both sweep requests before updating
\* the chart slots.  sensitivityData is given new content only by the step
\* in which the handler resumes, only when both requests have resolved, in
\* one step that fills both slots and ends the run; the two slots are always
\* both empty or both filled, so no state holds one slot of a run while the
\* other request is pending.
C19_JoinBeforeUpdate ==
    [][ /\ (sensitivityData' # sensitivityData
              /\ sensitivityData' # NoSensitivityData)
           => /\ SensitivityResumes
              /\ PromiseAllResolved
              /\ sensitivityData'.loanRate # None
              /\ sensitivityData'.growth # None
              /\ sweep' = NoSweep
        /\ (sensitivityData'.loanRate = None) <=> (sensitivityData'.growth = None)
      ]_vars

\* C19 witness: a run has resolved and filled both slots, one with points and
\* one with a success:false payload.
C19_Witness ==
    /\ ~sensitivityLoading
    /\ SuccessWithPoints(sensitivityData.loanRate)
    /\ sensitivityData.growth # None
    /\ ~TruthyBool(sensitivityData.growth[1].res, "success")

\* C20: a failed sensitivity sweep, of either failure kind (rejected request
\* or success:false payload), does not block the results view.  When the
\* handler resumes, the displayed result and the error are unchanged, the
\* chart of a failed sweep is absent, and the chart of the other sweep, if it
\* succeeded with points, is displayed.
C20_FailedSweepOnlyLosesItsChart ==
    [][ SensitivityResumes
          => /\ result' = result
             /\ error' = error
             /\ SweepFails(sweep.loan)
                   => /\ ~LoanChartShown'
                      /\ (SweepSucceedsWithPoints(sweep.growth) /\ ExpertPanelShown')
                            => GrowthChartShown'
             /\ SweepFails(sweep.growth)
                   => /\ ~GrowthChartShown'
                      /\ (SweepSucceedsWithPoints(sweep.loan) /\ ExpertPanelShown')
                            => LoanChartShown' ]_vars

\* ---------------------------------------------------- properties: results
OptionalSections == DashboardSections \cup {"lmp_status"}

\* The answer decodes to success = true with a metrics object that has its
\* numeric fields.
SuccessWithMetrics(r) ==
    /\ r.kind = "json"
    /\ "success" \in DOMAIN r.body /\ r.body.success = TRUE
    /\ "metrics" \in DOMAIN r.body /\ "irr" \in DOMAIN r.body.metrics

\* C21: a successful simulate response that carries metrics but lacks any
\* subset of the optional sections fiscal, yearly_cashflows, alerts and
\* lmp_status is treated as a success: the result is stored, the results
\* dashboard is displayed, no error is set, and no missing section is shown.
C21_MissingSectionsAreNotErrors ==
    [][ \A r \in ShapedResponses :
          (SubmitResumes(r) /\ SuccessWithMetrics(r))
             => /\ result' # None /\ result'[1].res = r.body
                /\ ResultsShown'
                /\ error' = None
                /\ \A s \in OptionalSections \ DOMAIN r.body : ~SectionShown(s)' ]_vars

\* C21 witness: a result with alerts but without fiscal and yearly_cashflows
\* sections, and with an empty lmp_status, is on display in expert mode with
\* no error.
C21_Witness ==
    /\ ResultsShown
    /\ mode = "expert"
    /\ error = None
    /\ "fiscal" \notin DOMAIN result[1].res
    /\ "alerts" \in DOMAIN result[1].res
    /\ SectionShown("alerts")
    /\ ~SectionShown("lmp_status")

\* The body has the documented shape of a SimulationResponse: a boolean
\* success flag and, when it carries metrics, metrics with numeric fields.
DocumentedShape(b) ==
    /\ "success" \in DOMAIN b
    /\ b.success \in BOOLEAN
    /\ "metrics" \in DOMAIN b => "irr" \in DOMAIN b.metrics

\* C22: a simulate response is handed to rendering only if it has the
\* documented shape: a decoded body that is not a SimulationResponse never
\* becomes the stored result and never reaches ResultsDashboard.
C22_OnlyDocumentedShapeRendered ==
    /\ result # None => DocumentedShape(result[1].res)
    /\ ResultsShown => "irr" \in DOMAIN DashboardProps.metrics

\* ------------------------------------------- properties: page, concurrency
\* A step in which a submit handler starts.
SubmitStarts ==
    \E d \in ParamIds : handleSimpleSubmit(d) \/ handleExpertSubmit(d)

\* A step in which the mode buttons call handleModeChange.
ModeSwitches == \E m \in Modes : handleModeChange(m)

\* C23: a simulation result is held in UI state only until the next submit
\* or mode switch.  Once a new submit has started or the mode has been
\* switched, the result of an earlier submit is no longer held or displayed,
\* whatever the outcome of the new submit.
C23_ResultHeldUntilNextSubmit ==
    [][ /\ SubmitStarts => (result' = None /\ ~ResultsShown')
        /\ ModeSwitches => (result' = None /\ ~ResultsShown')
        /\ \A r \in SimResponses :
              (SubmitResumes(r) /\ (TransportFailure(r) \/ AppFailure(r)))
                 => (result' = None /\ ~ResultsShown') ]_vars

\* The investment-quality classification of an irr under the default
\* thresholds (risk-free rate 3.5%, discount rate 5%).
DefaultClassification(irr) ==
    getScoreInfo(irr, DefaultRiskFreeRate, DefaultDiscountRate)

\* C24: the results dashboard's IRR verdicts are keyed off the thresholds of
\* the investment-quality classification.  For every irr, the 'good
\* investment' banner is shown exactly when the classification is 'good', and
\* the IRR metric card is coloured positive exactly when the classification
\* is not 'poor'.
C24_DashboardFollowsClassification ==
    dashboard # None =>
        LET d == dashboard[1] IN
            /\ d.banner = "Bon investissement"
                  <=> DefaultClassification(d.metrics.irr) = GoodInfo
            /\ d.irrPositive
                  <=> DefaultClassification(d.metrics.irr) # PoorInfo

\* C25: every sensitivity chart on display was computed from the parameter
\* set that produced the simulation result on display, under any
\* interleaving of expert submits, failed submits, mode switches and
\* sensitivity responses.
C25_ChartsMatchDisplayedResult ==
    /\ LoanChartShown => sensitivityData.loanRate[1].base = result[1].params
    /\ GrowthChartShown => sensitivityData.growth[1].base = result[1].params

\* C26: a displayed result always comes from a submission made in the
\* currently selected mode; after handleModeChange no response of a request
\* started in the other mode becomes the displayed result, even when that
\* request was in flight at the time of the switch.
C26_ResultFromCurrentMode ==
    ResultsShown => result[1].fromMode = mode

\* C27: at most one simulate request (simple or expert) is in flight at any
\* time.  The submit control of the mounted form is disabled whenever loading
\* is true, a submit only starts when no request is pending, loading is true
\* exactly while the request is pending, and a mode switch made while a
\* request is pending leaves submission disabled.
C27_AtMostOneSimulateInFlight ==
    [][ /\ loading => ~SubmitEnabled
        /\ SubmitStarts => (simReq.st = "none" /\ loading')
        /\ simReq'.st = "pending" <=> loading'
        /\ (ModeSwitches /\ simReq.st = "pending")
              => (loading' /\ ~SubmitEnabled' /\ simReq' = simReq) ]_vars

\* C27 witness: the mode was switched while a request was pending; the form
\* now mounted has its submit control disabled.
C27_Witness ==
    /\ simReq.st = "pending"
    /\ simReq.mode # mode
    /\ loading
    /\ ~SubmitEnabled

\* C28: the sensitivity trigger is disabled whenever a sweep request is in
\* flight: sensitivityLoading is true in every state in which a request of a
\* run has not yet settled, including when the other request of that run has
\* already failed.
C28_SweepInFlightDisablesTrigger ==
    (\/ sweep.loan.st = "pending"
     \/ sweep.growth.st = "pending"
     \/ orphans > 0)
    => (sensitivityLoading /\ ~SensitivityButtonEnabled)

\* C29: every completed submit leaves visible feedback: when a simple or
\* expert submit completes, the view shows a results dashboard or an error
\* message, never the 'fill the form' placeholder alone.
C29_CompletedSubmitLeavesFeedback ==
    [][ \A r \in SimResponses :
          SubmitResumes(r) => (~loading' /\ (ResultsShown' \/ ErrorShown')) ]_vars

\* C30: busy flags always clear.  Provided every issued request eventually
\* resolves or rejects, every simple or expert submit is eventually followed
\* by loading = false and every sensitivity run by sensitivityLoading =
\* false, whatever the outcome (success, application-level failure,
\* transport failure).
C30_BusyFlagsAlwaysClear ==
    /\ loading ~> ~loading
    /\ sensitivityLoading ~> ~sensitivityLoading

\* C30 witness: a submit has ended on a transport failure and a sensitivity
\* run on a rejected request, and both flags are clear.
C30_Witness ==
    /\ ~loading
    /\ error = Some(ConnectionError)
    /\ ~sensitivityLoading
    /\ orphans > 0
=============================================================================
